---- MODULE Spec2Model ----
(***************************************************************************)
(* Model of zomato_streamlit_Dashboard.py: the cleaning function           *)
(* load_and_clean, the sidebar filters, and the aggregations the script    *)
(* recomputes on every rerun.                                              *)
(*                                                                         *)
(* Representation.                                                         *)
(*   - A text is a sequence of one-character strings, so that the string   *)
(*     operations of the code (replace, strip, extract, parse) are         *)
(*     computed and not assumed.                                           *)
(*   - A cell holding text is T(s); a missing cell (NaN in an object       *)
(*     column) is NA.                                                      *)
(*   - A float is an exact decimal [na, n, d] standing for n/d with d a    *)
(*     power of ten and no trailing zero; NaN is the float that is absent. *)
(*   - A DataFrame is [columns, rows]; a row is [index, cells] where index *)
(*     is the pandas index label and cells maps each column to its value.  *)
(*   - The script uses the names np, plt and sns without importing them;   *)
(*     they are read as numpy, matplotlib.pyplot and seaborn.  Chart       *)
(*     rendering is not modelled.                                          *)
(***************************************************************************)
EXTENDS Integers, Sequences, FiniteSets, TLC

(***************************************************************************)
(* Bounds of the model.                                                    *)
(***************************************************************************)
\* longest uploaded table drawn from RowSet
MaxRows == 2
\* longest uploaded table of the ranking files
MaxRankRows == 11

(***************************************************************************)
(* Texts and cells.                                                        *)
(***************************************************************************)
T(s) == [na |-> FALSE, s |-> s]
NA == [na |-> TRUE, s |-> <<>>]

NaN == [na |-> TRUE, n |-> 0, d |-> 1]

RECURSIVE Dec(_, _)
\* the float n/d, d a power of ten, in its canonical form
Dec(n, d) ==
  IF d > 1 /\ n % 10 = 0 THEN Dec(n \div 10, d \div 10)
  ELSE [na |-> FALSE, n |-> n, d |-> d]

\* float comparisons: any comparison with NaN is False
Ge(a, b) == ~a.na /\ ~b.na /\ a.n * b.d >= b.n * a.d
Le(a, b) == ~a.na /\ ~b.na /\ a.n * b.d <= b.n * a.d

Digits == <<"0", "1", "2", "3", "4", "5", "6", "7", "8", "9">>
IsDigit(c) == \E i \in 1..Len(Digits) : Digits[i] = c
DigitVal(c) == (CHOOSE i \in 1..Len(Digits) : Digits[i] = c) - 1
IsSpace(c) == c \in {" ", "\t"}

RECURSIVE DigitsToInt(_)
DigitsToInt(s) ==
  IF s = <<>> THEN 0
  ELSE DigitsToInt(SubSeq(s, 1, Len(s) - 1)) * 10 + DigitVal(s[Len(s)])

RECURSIVE Pow10(_)
Pow10(k) == IF k = 0 THEN 1 ELSE 10 * Pow10(k - 1)

AllDigits(s) == \A i \in 1..Len(s) : IsDigit(s[i])

\* DataFrame column .astype(str): a missing cell becomes the text "nan"
astype_str(c) == IF c.na THEN <<"n", "a", "n">> ELSE c.s

RECURSIVE str_replace(_, _, _)
\* Series.str.replace(pat, rep) for a literal pattern: every occurrence,
\* scanning left to right
str_replace(s, pat, rep) ==
  IF Len(s) < Len(pat) THEN s
  ELSE IF SubSeq(s, 1, Len(pat)) = pat
       THEN rep \o str_replace(SubSeq(s, Len(pat) + 1, Len(s)), pat, rep)
       ELSE <<s[1]>> \o str_replace(Tail(s), pat, rep)

RECURSIVE lstrip(_)
lstrip(s) == IF s # <<>> /\ IsSpace(s[1]) THEN lstrip(Tail(s)) ELSE s
RECURSIVE rstrip(_)
rstrip(s) ==
  IF s # <<>> /\ IsSpace(s[Len(s)]) THEN rstrip(SubSeq(s, 1, Len(s) - 1)) ELSE s
\* Series.str.strip()
str_strip(s) == rstrip(lstrip(s))

\* Series.replace(list, np.nan): a cell equal to one of the listed texts
\* becomes missing
replace_with_nan(s, vals) == IF s \in vals THEN NA ELSE T(s)

\* digits with at most one decimal point and at least one digit
ParseUnsigned(s) ==
  LET dots == {i \in 1..Len(s) : s[i] = "."}
  IN IF dots = {} THEN
       IF s # <<>> /\ AllDigits(s) THEN Dec(DigitsToInt(s), 1) ELSE NaN
     ELSE IF Cardinality(dots) = 1 THEN
       LET p == CHOOSE i \in dots : TRUE
           ip == SubSeq(s, 1, p - 1)
           fp == SubSeq(s, p + 1, Len(s))
       IN IF AllDigits(ip) /\ AllDigits(fp) /\ Len(ip) + Len(fp) > 0
          THEN Dec(DigitsToInt(ip \o fp), Pow10(Len(fp)))
          ELSE NaN
     ELSE NaN

\* pd.to_numeric(..., errors='coerce') on one cell: a decimal literal with
\* an optional sign parses, a missing cell or any other text is NaN.
\* (Exponent, inf and nan literals are outside the alphabet of the inputs.)
to_numeric(c) ==
  IF c.na THEN NaN
  ELSE LET s == str_strip(c.s)
       IN IF s = <<>> THEN NaN
          ELSE IF s[1] = "-" THEN
                 LET u == ParseUnsigned(Tail(s))
                 IN IF u.na THEN NaN ELSE Dec(0 - u.n, u.d)
          ELSE IF s[1] = "+" THEN ParseUnsigned(Tail(s))
          ELSE ParseUnsigned(s)

RECURSIVE TakeDigits(_)
TakeDigits(s) ==
  IF s # <<>> /\ IsDigit(s[1]) THEN <<s[1]>> \o TakeDigits(Tail(s)) ELSE <<>>

RECURSIVE str_extract_digits(_)
\* Series.str.extract(r'(\d+)'): the first run of digits, missing if none
str_extract_digits(s) ==
  IF s = <<>> THEN NA
  ELSE IF IsDigit(s[1]) THEN T(TakeDigits(s))
  ELSE str_extract_digits(Tail(s))

\* .astype(float) of an extracted digit run
astype_float(c) == IF c.na THEN NaN ELSE Dec(DigitsToInt(c.s), 1)

\* .fillna(0).astype(int): NaN becomes 0, a float is truncated toward zero
fillna0_astype_int(x) ==
  IF x.na THEN 0
  ELSE IF x.n >= 0 THEN x.n \div x.d ELSE 0 - ((0 - x.n) \div x.d)

(***************************************************************************)
(* DataFrames.                                                             *)
(***************************************************************************)
EmptyFrame == [columns |-> {}, rows |-> <<>>]

\* pd.read_csv: the rows of the file under a RangeIndex 0, 1, 2, ...
read_csv(file) ==
  [columns |-> file.columns,
   rows |-> [i \in 1..Len(file.rows) |-> [index |-> i - 1, cells |-> file.rows[i]]]]

\* df[col] = series, the series given by position: col is added or
\* overwritten
Assign(df, col, series) ==
  [columns |-> df.columns \cup {col},
   rows |-> [i \in 1..Len(df.rows) |->
              [index |-> df.rows[i].index,
               cells |-> [c \in df.columns \cup {col} |->
                           IF c = col THEN series[i]
                           ELSE df.rows[i].cells[c]]]]]

RECURSIVE RowsAt(_, _)
\* the rows of a sequence at the positions in S, in their order
RowsAt(rows, S) ==
  IF rows = <<>> THEN <<>>
  ELSE RowsAt(SubSeq(rows, 1, Len(rows) - 1), S)
       \o (IF Len(rows) \in S THEN <<rows[Len(rows)]>> ELSE <<>>)

\* df[mask] for a boolean mask given by position: the rows where the mask
\* is True, in their order, with their index labels
Select(df, mask) ==
  [columns |-> df.columns,
   rows |-> RowsAt(df.rows, {i \in 1..Len(df.rows) : mask[i]})]

\* df[[c1, c2, ...]]
Project(df, cols) ==
  [columns |-> cols,
   rows |-> [i \in 1..Len(df.rows) |->
              [index |-> df.rows[i].index,
               cells |-> [c \in cols |-> df.rows[i].cells[c]]]]]

\* df.head(n)
head(df, n) ==
  [columns |-> df.columns,
   rows |-> SubSeq(df.rows, 1, IF Len(df.rows) < n THEN Len(df.rows) ELSE n)]

(***************************************************************************)
(* load_and_clean.                                                         *)
(***************************************************************************)
rename_map(c) ==
  IF c \in {"approx_cost(for two people)", "approx_cost(for two people) "}
  THEN "cost_for_two"
  ELSE IF c \in {"listed_in(type)", "listed_in(type) "}
  THEN "restaurant_type"
  ELSE c

\* df.rename(columns=rename_map)
df_rename(df) ==
  LET cols == {rename_map(c) : c \in df.columns}
  IN [columns |-> cols,
      rows |-> [i \in 1..Len(df.rows) |->
                 [index |-> df.rows[i].index,
                  cells |-> [c \in cols |->
                              df.rows[i].cells[CHOOSE k \in df.columns :
                                                 rename_map(k) = c]]]]]

\* the texts the code takes for "no rating": '-', 'nan', 'NONE', 'None', 'NEW'
RateMissing ==
  {<<"-">>, <<"n", "a", "n">>, <<"N", "O", "N", "E">>,
   <<"N", "o", "n", "e">>, <<"N", "E", "W">>}

clean_rate(c) ==
  to_numeric(replace_with_nan(str_replace(astype_str(c), <<"/", "5">>, <<>>),
                              RateMissing))

clean_cost(c) ==
  astype_float(str_extract_digits(str_replace(astype_str(c), <<",">>, <<>>)))

clean_votes(c) == fillna0_astype_int(to_numeric(c))

Yes == <<"Y", "e", "s">>
No == <<"N", "o">>
All == <<"A", "l", "l">>
Unknown == <<"U", "n", "k", "n", "o", "w", "n">>

\* .replace({'Yes': 'Yes', 'No': 'No', 'yes': 'Yes', 'no': 'No',
\*           '0': 'No', '1': 'Yes'}): any other text is kept as it is
yes_no_map(s) ==
  IF s \in {Yes, <<"y", "e", "s">>, <<"1">>} THEN Yes
  ELSE IF s \in {No, <<"n", "o">>, <<"0">>} THEN No
  ELSE s

clean_yes_no(c) == T(yes_no_map(str_strip(astype_str(c))))

\* lines 41-44
clean_rate_column(df) ==
  IF "rate" \in df.columns
  THEN Assign(df, "rate",
              [i \in 1..Len(df.rows) |-> clean_rate(df.rows[i].cells["rate"])])
  ELSE df

\* lines 47-48
clean_cost_column(df) ==
  IF "cost_for_two" \in df.columns
  THEN Assign(df, "cost_for_two",
              [i \in 1..Len(df.rows) |->
                 clean_cost(df.rows[i].cells["cost_for_two"])])
  ELSE df

\* lines 51-52
clean_votes_column(df) ==
  IF "votes" \in df.columns
  THEN Assign(df, "votes",
              [i \in 1..Len(df.rows) |-> clean_votes(df.rows[i].cells["votes"])])
  ELSE df

\* lines 55-57, for one of the two Yes/No columns
clean_yes_no_column(df, c) ==
  IF c \in df.columns
  THEN Assign(df, c,
              [i \in 1..Len(df.rows) |-> clean_yes_no(df.rows[i].cells[c])])
  ELSE df

\* lines 60-61: df['restaurant_type'] = df.get('listed_in(city)', 'Unknown')
ensure_restaurant_type(df) ==
  IF "restaurant_type" \notin df.columns
  THEN Assign(df, "restaurant_type",
              [i \in 1..Len(df.rows) |->
                 IF "listed_in(city)" \in df.columns
                 THEN df.rows[i].cells["listed_in(city)"]
                 ELSE T(Unknown)])
  ELSE df

clean_columns(df) ==
  ensure_restaurant_type(
    clean_yes_no_column(
      clean_yes_no_column(
        clean_votes_column(clean_cost_column(clean_rate_column(df_rename(df)))),
        "online_order"),
      "book_table"))

\* a cleaning that also drops the rows with an absent rate, cost or votes
dropna(df) ==
  Select(df, [i \in 1..Len(df.rows) |->
                /\ ~df.rows[i].cells["rate"].na
                /\ ~df.rows[i].cells["cost_for_two"].na])

load_and_clean_dropna(file) == dropna(clean_columns(read_csv(file)))

load_and_clean(file) == clean_columns(read_csv(file))

(***************************************************************************)
(* The script body: sidebar widgets, filters and aggregations.             *)
(***************************************************************************)
\* ['All'] + sorted(data[col].dropna().unique().tolist()), as a set: the
\* order of the options plays no part in what can be selected
options(df, col) ==
  {All} \cup {df.rows[i].cells[col].s :
                i \in {j \in 1..Len(df.rows) : ~df.rows[j].cells[col].na}}

RateValues(df) ==
  {df.rows[i].cells["rate"] :
     i \in {j \in 1..Len(df.rows) : ~df.rows[j].cells["rate"].na}}

\* float(data['rate'].min(skipna=True)), 0.0 when no rate is present
min_rate(df) ==
  IF RateValues(df) = {} THEN Dec(0, 1)
  ELSE CHOOSE x \in RateValues(df) : \A y \in RateValues(df) : Le(x, y)

\* float(data['rate'].max(skipna=True)), 5.0 when no rate is present
max_rate(df) ==
  IF RateValues(df) = {} THEN Dec(5, 1)
  ELSE CHOOSE x \in RateValues(df) : \A y \in RateValues(df) : Ge(x, y)

\* st.slider(min_value=0.0, max_value=5.0, value=...) raises when a bound of
\* the value lies outside [min_value, max_value]
slider_accepts(range) ==
  /\ Ge(range[1], Dec(0, 1)) /\ Le(range[1], Dec(5, 1))
  /\ Ge(range[2], Dec(0, 1)) /\ Le(range[2], Dec(5, 1))

\* lines 87-88
filter_online(df, w) ==
  IF w.online # All
  THEN Select(df, [i \in 1..Len(df.rows) |->
                     df.rows[i].cells["online_order"] = T(w.online)])
  ELSE df

\* lines 89-90
filter_table(df, w) ==
  IF w.table # All
  THEN Select(df, [i \in 1..Len(df.rows) |->
                     df.rows[i].cells["book_table"] = T(w.table)])
  ELSE df

\* lines 91-92
filter_type(df, w) ==
  IF w.rtype # All
  THEN Select(df, [i \in 1..Len(df.rows) |->
                     df.rows[i].cells["restaurant_type"] = T(w.rtype)])
  ELSE df

\* a rate filter whose upper bound is exclusive
filter_rate_open_bound(df, w) ==
  Select(df, [i \in 1..Len(df.rows) |->
                /\ Ge(df.rows[i].cells["rate"], w.range[1])
                /\ Le(df.rows[i].cells["rate"], w.range[2])
                /\ df.rows[i].cells["rate"] # w.range[2]])

\* line 93: both bounds inclusive, a NaN rate fails both comparisons
filter_rate(df, w) ==
  Select(df, [i \in 1..Len(df.rows) |->
                /\ Ge(df.rows[i].cells["rate"], w.range[1])
                /\ Le(df.rows[i].cells["rate"], w.range[2])])

\* the rate mask of the unfiltered table base applied by position to df
stale_rate_mask(base, df, w) ==
  Select(df, [i \in 1..Len(df.rows) |->
                /\ Ge(base.rows[i].cells["rate"], w.range[1])
                /\ Le(base.rows[i].cells["rate"], w.range[2])])

\* the filter steps with the rate mask taken from the unfiltered table
apply_filters_stale_mask(df, w) ==
  stale_rate_mask(df, filter_type(filter_table(filter_online(df, w), w), w), w)

\* df_filtered = data.copy() followed by the four filter steps
apply_filters(df, w) ==
  filter_rate(filter_type(filter_table(filter_online(df, w), w), w), w)

\* ((df['online_order'] == 'Yes') & (df['book_table'] == 'Yes'))
both_services(r) ==
  r.cells["online_order"] = T(Yes) /\ r.cells["book_table"] = T(Yes)

both_rows(df) == Select(df, [i \in 1..Len(df.rows) |-> both_services(df.rows[i])])

bins == <<0, 200, 400, 600, 800, 1000, 5000>>
labels ==
  << <<"<", "2", "0", "0">>,
     <<"2", "0", "0", "-", "4", "0", "0">>,
     <<"4", "0", "0", "-", "6", "0", "0">>,
     <<"6", "0", "0", "-", "8", "0", "0">>,
     <<"8", "0", "0", "-", "1", "0", "0", "0">>,
     <<"1", "0", "0", "0", "+">> >>

\* pd.cut(x.fillna(0), bins, labels): the label of the right-closed bin
\* (bins[k], bins[k+1]] holding x, missing when no bin holds it
pd_cut(x) ==
  LET v == IF x.na THEN Dec(0, 1) ELSE x
      hit == {k \in 1..Len(labels) :
                bins[k] * v.d < v.n /\ v.n <= bins[k + 1] * v.d}
  IN IF hit = {} THEN NA ELSE T(labels[CHOOSE k \in hit : TRUE])

\* line 162 on the table df
with_cost_bucket(df) ==
  Assign(df, "cost_bucket",
         [i \in 1..Len(df.rows) |-> pd_cut(df.rows[i].cells["cost_for_two"])])

\* a cost_bucket column written through to the base table as well
assign_cost_bucket_aliased(frames) ==
  [data |-> with_cost_bucket(frames.data),
   df_filtered |-> with_cost_bucket(frames.df_filtered)]

\* df_filtered['cost_bucket'] = pd.cut(...): frames holds the two tables
\* alive at that line; only df_filtered is written
assign_cost_bucket(frames) ==
  [data |-> frames.data,
   df_filtered |-> IF "cost_for_two" \in frames.df_filtered.columns
                   THEN with_cost_bucket(frames.df_filtered)
                   ELSE frames.df_filtered]

RECURSIVE Perms(_)
\* every arrangement of the elements of S
Perms(S) ==
  IF S = {} THEN {<<>>}
  ELSE UNION {{<<x>> \o p : p \in Perms(S \ {x})} : x \in S}

RECURSIVE SortedOrders(_, _, _)
\* every arrangement of the positions S in which key is monotone
SortedOrders(S, key, asc) ==
  IF S = {} THEN {<<>>}
  ELSE LET m == CHOOSE i \in S :
                  \A j \in S : IF asc THEN key[i] <= key[j] ELSE key[i] >= key[j]
           G == {i \in S : key[i] = key[m]}
       IN {p \o r : p \in Perms(G), r \in SortedOrders(S \ G, key, asc)}

VotesKey(df) == [i \in 1..Len(df.rows) |-> df.rows[i].cells["votes"]]

\* df.sort_values(by='votes', ascending=asc) with the default kind
\* 'quicksort', which is not stable: the possible results are the
\* arrangements sorted by votes, rows of equal votes in any order
sort_values(df, asc) ==
  {[columns |-> df.columns, rows |-> [k \in 1..Len(df.rows) |-> df.rows[o[k]]]] :
     o \in SortedOrders(1..Len(df.rows), VotesKey(df), asc)}

\* the head(10) of the three ranking tables
K == 10

RankCols == {"name", "rate", "votes"}

\* a Lowest Voted table cut to half the rows
low_voted_short(sorted) == head(Project(sorted, RankCols), K \div 2)

\* a Most Voted table taken from the end of the sorted table
most_voted_tail(sorted) ==
  LET p == Project(sorted, RankCols)
      n == Len(p.rows)
  IN [columns |-> p.columns,
      rows |-> SubSeq(p.rows, IF n > K THEN n - K + 1 ELSE 1, n)]

\* sorted[['name', 'rate', 'votes']].head(10) of the descending sort
most_voted_of(sorted) == head(Project(sorted, RankCols), K)

\* sorted[['name', 'rate', 'votes']].head(10) of the ascending sort
low_voted_of(sorted) == head(Project(sorted, RankCols), K)

(***************************************************************************)
(* Uploaded files.                                                         *)
(***************************************************************************)
Cols ==
  {"name", "online_order", "book_table", "rate", "votes", "cost_for_two",
   "restaurant_type"}

Cafe == <<"C", "a", "f", "e">>
Bar == <<"B", "a", "r">>

\* raw rows, as pd.read_csv hands them over: every cell a text or missing
RowSet ==
  { [name |-> T(<<"A">>), online_order |-> T(Yes), book_table |-> T(Yes),
     rate |-> T(<<"4", ".", "1", "/", "5">>), votes |-> T(<<"1", "2", "0">>),
     cost_for_two |-> T(<<"8", "0", "0">>), restaurant_type |-> T(Cafe)],
    [name |-> T(<<"B">>), online_order |-> T(No), book_table |-> T(No),
     rate |-> T(<<"N", "E", "W">>), votes |-> T(<<"1", "0">>),
     cost_for_two |-> T(<<"2", "0", "0">>), restaurant_type |-> T(Cafe)],
    [name |-> T(<<"C">>), online_order |-> T(<<"y", "e", "s">>),
     book_table |-> T(No),
     rate |-> T(<<"3", ".", "5">>), votes |-> T(<<"8", "8">>),
     cost_for_two |-> T(<<"1", ",", "2", "0", "0">>),
     restaurant_type |-> T(Bar)],
    [name |-> T(<<"D">>), online_order |-> T(<<"Y", "E", "S">>),
     book_table |-> NA,
     rate |-> T(<<"-">>), votes |-> NA,
     cost_for_two |-> T(<<"a", "s", "k">>), restaurant_type |-> NA],
    [name |-> T(<<"E">>), online_order |-> T(<<"1">>),
     book_table |-> T(<<"0">>),
     rate |-> NA, votes |-> T(<<"1", "2", ".", "7">>),
     cost_for_two |-> T(<<"R", "s", " ", "3", "5", "0", " ", "x", "2">>),
     restaurant_type |-> T(Bar)] }

\* a raw row whose rate lies outside the slider's scale
OddRows ==
  { [name |-> T(<<"F">>), online_order |-> T(<<" ", "N", "o", " ">>),
     book_table |-> T(Yes),
     rate |-> T(<<"7", ".", "5", "/", "5">>), votes |-> T(<<"4", "5">>),
     cost_for_two |-> T(<<"0">>), restaurant_type |-> T(Cafe)] }

\* the tables of at most n rows of RowSet
Tables(n) == UNION {[1..k -> RowSet] : k \in 0..n}

\* the tables of one row or none, the odd rows among them
ShortTables == UNION {[1..k -> RowSet \cup OddRows] : k \in 0..1}

\* a row under other column headers: the cost under costcol, the type under
\* typecol
Rekey(r, costcol, typecol) ==
  [c \in (Cols \ {"cost_for_two", "restaurant_type"}) \cup {costcol, typecol} |->
     IF c = costcol THEN r.cost_for_two
     ELSE IF c = typecol THEN r.restaurant_type
     ELSE r[c]]

\* a row of a file that has no type column of any name
Untyped(r) == [c \in Cols \ {"restaurant_type"} |-> r[c]]

HeaderFiles ==
  {[columns |-> (Cols \ {"cost_for_two", "restaurant_type"}) \cup {h[1], h[2]},
    rows |-> [i \in 1..Len(t) |-> Rekey(t[i], h[1], h[2])]] :
     h \in {<<"approx_cost(for two people)", "listed_in(type)">>,
            <<"approx_cost(for two people) ", "listed_in(type) ">>,
            <<"cost_for_two", "listed_in(city)">>},
     t \in ShortTables}
  \cup
  {[columns |-> Cols \ {"restaurant_type"},
    rows |-> [i \in 1..Len(t) |-> Untyped(t[i])]] : t \in ShortTables}

Files ==
  {[columns |-> Cols, rows |-> t] : t \in Tables(MaxRows) \cup ShortTables}
  \cup HeaderFiles

RECURSIVE IntToText(_)
IntToText(v) ==
  IF v < 10 THEN <<Digits[v + 1]>>
  ELSE IntToText(v \div 10) \o <<Digits[(v % 10) + 1]>>

\* the votes of row i of a ranking file, by pattern: all distinct and
\* scattered, two rows tied at the top, two rows tied at the bottom
RankVotes(p, i) ==
  CASE p = 1 -> (i * 7) % 17
    [] p = 2 -> IF i \in {1, 2} THEN 900 ELSE i
    [] OTHER -> IF i \in {1, 2} THEN 0 ELSE i

RankRow(p, i) ==
  [name |-> T(<<"r">> \o IntToText(i)),
   online_order |-> T(Yes),
   book_table |-> T(Yes),
   rate |-> T(IF i % 4 = 0 THEN <<"3", ".", "5">> ELSE <<"4", ".", "1", "/", "5">>),
   votes |-> T(IntToText(RankVotes(p, i))),
   cost_for_two |-> T(<<"8", "0", "0">>),
   restaurant_type |-> T(Cafe)]

RankFiles ==
  {[columns |-> Cols, rows |-> [i \in 1..n |-> RankRow(p, i)]] :
     p \in 1..3, n \in 0..MaxRankRows}

\* the slider positions the model lets the user pick, in tenths
RateStops == {35, 41, 50}

(***************************************************************************)
(* State.                                                                  *)
(***************************************************************************)
VARIABLES
  uploaded_file,     \* the uploaded file, NoFile before the upload
  cache,             \* the st.cache_data store of load_and_clean
  status,            \* how the last run of the script ended
  data,              \* the cleaned table of the last run
  online_filter,     \* the three selectboxes
  table_filter,
  rest_type_filter,
  rate_range,        \* the slider's pair
  df_filtered,       \* the filtered table, with cost_bucket once added
  both_metric,       \* the metric "Restaurants with Both Online & Booking"
  most_voted,        \* the table under "Most Voted"
  low_voted,         \* the table under "Lowest Voted Restaurants"
  both_df            \* the table under "Restaurants offering both ..."

vars ==
  <<uploaded_file, cache, status, data, online_filter, table_filter,
    rest_type_filter, rate_range, df_filtered, both_metric, most_voted,
    low_voted, both_df>>

NoFile == [present |-> FALSE, columns |-> {}, rows |-> <<>>]

Init ==
  /\ uploaded_file = NoFile
  /\ cache = {}
  /\ status = "none"
  /\ data = EmptyFrame
  /\ online_filter = All
  /\ table_filter = All
  /\ rest_type_filter = All
  /\ rate_range = <<Dec(0, 1), Dec(5, 1)>>
  /\ df_filtered = EmptyFrame
  /\ both_metric = 0
  /\ most_voted = EmptyFrame
  /\ low_voted = EmptyFrame
  /\ both_df = EmptyFrame

\* @st.cache_data: the stored result for this file, computed on a miss
cached_load(file) ==
  IF \E e \in cache : e.key = file
  THEN (CHOOSE e \in cache : e.key = file).value
  ELSE load_and_clean(file)

\* Lines 95-211 of a run whose slider did not raise, on the cleaned table
\* base and the table filtered that line 93 left.  The run stops at the
\* Average Votes metric when base is empty (int(nan) raises); otherwise
\* frames holds the two tables after the cost_bucket assignment.
ShowResults(base, filtered, frames) ==
  IF Len(base.rows) = 0 THEN
    /\ status' = "metric_error"
    /\ data' = base
    /\ df_filtered' = filtered
    /\ both_metric' = 0
    /\ most_voted' = EmptyFrame
    /\ low_voted' = EmptyFrame
    /\ both_df' = EmptyFrame
  ELSE
    /\ status' = "done"
    /\ data' = frames.data
    /\ df_filtered' = frames.df_filtered
    /\ both_metric' = Len(both_rows(base).rows)
    /\ most_voted' \in {most_voted_of(d) :
                          d \in sort_values(frames.df_filtered, FALSE)}
    /\ low_voted' \in {low_voted_of(a) :
                         a \in sort_values(frames.df_filtered, TRUE)}
    /\ both_df' = both_rows(frames.data)

\* Lines 85-211 on the cleaned table base
FilterAndShow(base, w, filtered) ==
  ShowResults(base, filtered,
              assign_cost_bucket([data |-> base, df_filtered |-> filtered]))

\* Lines 67-211 with the cleaned table base at hand.  The run stops at the
\* slider when its value lies outside [0, 5].
RunOn(file, w, base) ==
  /\ uploaded_file' = file
  /\ cache' = cache \cup {[key |-> file, value |-> base]}
  /\ online_filter' = w.online
  /\ table_filter' = w.table
  /\ rest_type_filter' = w.rtype
  /\ rate_range' = w.range
  /\ IF ~slider_accepts(w.range) THEN
       /\ status' = "slider_error"
       /\ data' = base
       /\ df_filtered' = EmptyFrame
       /\ both_metric' = 0
       /\ most_voted' = EmptyFrame
       /\ low_voted' = EmptyFrame
       /\ both_df' = EmptyFrame
     ELSE FilterAndShow(base, w, apply_filters(base, w))

\* One run of the script body (lines 66-223) on the uploaded file with the
\* widget values w
RunScript(file, w) == RunOn(file, w, cached_load(file))

\* the first run: every selectbox at 'All', the slider at (min_rate, max_rate)
FirstRun(file, base) ==
  RunOn(file,
        [online |-> All, table |-> All, rtype |-> All,
         range |-> <<min_rate(base), max_rate(base)>>],
        base)

Widgets ==
  [online |-> online_filter, table |-> table_filter,
   rtype |-> rest_type_filter, range |-> rate_range]

\* the file uploader receives a file: first run, every widget at its default
UploadOf(file) ==
  /\ ~uploaded_file.present
  /\ FirstRun([present |-> TRUE, columns |-> file.columns, rows |-> file.rows],
              cached_load([present |-> TRUE, columns |-> file.columns,
                           rows |-> file.rows]))

Upload == \E file \in Files : UploadOf(file)

UploadRanking == \E file \in RankFiles : UploadOf(file)

SelectOnline ==
  /\ uploaded_file.present
  /\ \E v \in options(data, "online_order") :
       /\ v # online_filter
       /\ RunScript(uploaded_file, [Widgets EXCEPT !.online = v])

SelectTable ==
  /\ uploaded_file.present
  /\ \E v \in options(data, "book_table") :
       /\ v # table_filter
       /\ RunScript(uploaded_file, [Widgets EXCEPT !.table = v])

SelectType ==
  /\ uploaded_file.present
  /\ \E v \in options(data, "restaurant_type") :
       /\ v # rest_type_filter
       /\ RunScript(uploaded_file, [Widgets EXCEPT !.rtype = v])

\* the slider is on the page only when it did not raise
MoveSlider ==
  /\ uploaded_file.present
  /\ status # "slider_error"
  /\ \E lo \in RateStops, hi \in RateStops :
       /\ lo <= hi
       /\ <<Dec(lo, 10), Dec(hi, 10)>> # rate_range
       /\ RunScript(uploaded_file,
                    [Widgets EXCEPT !.range = <<Dec(lo, 10), Dec(hi, 10)>>])

Next == Upload \/ SelectOnline \/ SelectTable \/ SelectType \/ MoveSlider

Spec == Init /\ [][Next]_vars

NextRanking ==
  UploadRanking \/ SelectOnline \/ SelectTable \/ SelectType \/ MoveSlider

SpecRanking == Init /\ [][NextRanking]_vars

(***************************************************************************)
(* Properties.                                                             *)
(***************************************************************************)
Loaded == uploaded_file.present

\* the run reached line 93 and df_filtered is bound
Filtered == status \in {"done", "metric_error"}

\* df_filtered as line 93 left it, before line 162 added cost_bucket
AtLine93(df) == Project(df, df.columns \ {"cost_bucket"})

RowsOf(df) == 1..Len(df.rows)

Labels(df) == {df.rows[i].index : i \in RowsOf(df)}

VotesSeq(df) == [i \in RowsOf(df) |-> df.rows[i].cells["votes"]]

Smaller(a, b) == IF a < b THEN a ELSE b

\* the one arrangement sorted by votes in which rows of equal votes keep
\* their original order
StableSort(df, asc) ==
  LET o == CHOOSE q \in SortedOrders(RowsOf(df), VotesKey(df), asc) :
             \A a, b \in RowsOf(df) :
               (a < b /\ VotesKey(df)[q[a]] = VotesKey(df)[q[b]]) => q[a] < q[b]
  IN [columns |-> df.columns, rows |-> [k \in RowsOf(df) |-> df.rows[o[k]]]]

StableRanking(df, asc) == head(Project(StableSort(df, asc), RankCols), K)

\* C1 as stated: the cleaned table holds no row whose rating or cost is
\* absent (votes, an int column, is never absent): such rows were dropped.
C1_NoAbsentEssential ==
  Loaded =>
    \A i \in RowsOf(data) :
      /\ ~data.rows[i].cells["rate"].na
      /\ ~data.rows[i].cells["cost_for_two"].na

\* C1 amended: load_and_clean drops no row.  The cleaned table has one row
\* per raw row, in file order under the labels 0, 1, 2, ...; a rate of "NEW",
\* "-" or an empty cell is left absent in its row, and a missing votes cell
\* becomes 0.
C1_KeepsEveryRow ==
  Loaded =>
    /\ Len(data.rows) = Len(uploaded_file.rows)
    /\ \A i \in RowsOf(data) :
         /\ data.rows[i].index = i - 1
         /\ data.rows[i].cells["name"] = uploaded_file.rows[i]["name"]
         /\ uploaded_file.rows[i]["rate"] \in {T(<<"N", "E", "W">>), T(<<"-">>), NA}
              => data.rows[i].cells["rate"].na
         /\ uploaded_file.rows[i]["votes"] = NA => data.rows[i].cells["votes"] = 0

\* C1 witness: the rows [rate "4.1/5", rate "NEW"] cleaned to two rows, the
\* second with an absent rating
C1_Witness ==
  /\ Loaded
  /\ Len(uploaded_file.rows) = 2
  /\ uploaded_file.rows[1]["rate"] = T(<<"4", ".", "1", "/", "5">>)
  /\ uploaded_file.rows[2]["rate"] = T(<<"N", "E", "W">>)
  /\ Len(data.rows) = 2
  /\ data.rows[1].cells["rate"] = Dec(41, 10)
  /\ data.rows[1].cells["cost_for_two"] = Dec(800, 1)
  /\ data.rows[2].cells["rate"].na

\* C2 as stated: with the three selectboxes at 'All' and the slider at the
\* observed (min, max) rating, df_filtered is the full table, row for row.
C2_UnsetFilterKeepsAll ==
  ( /\ Filtered
    /\ online_filter = All /\ table_filter = All /\ rest_type_filter = All
    /\ rate_range = <<min_rate(data), max_rate(data)>> )
  => AtLine93(df_filtered) = data

\* C3 as stated: after load_and_clean every online_order and book_table
\* value is exactly "Yes" or "No".
C3_OnlyYesNo ==
  Loaded =>
    \A i \in RowsOf(data) :
      /\ data.rows[i].cells["online_order"] \in {T(Yes), T(No)}
      /\ data.rows[i].cells["book_table"] \in {T(Yes), T(No)}

\* C4 as stated: every cleaned rating is absent or a number within
\* [0.0, 5.0].
C4_RateInRange ==
  Loaded =>
    \A i \in RowsOf(data) :
      \/ data.rows[i].cells["rate"].na
      \/ /\ 0 <= data.rows[i].cells["rate"].n
         /\ data.rows[i].cells["rate"].n <= 5 * data.rows[i].cells["rate"].d

\* C5 as stated: the reported both-services count (the metric, and the Total
\* of both_df) plus the number of the other rows of the filtered table is
\* the number of rows of the filtered table.
C5_BothCountOverFiltered ==
  status = "done" =>
    LET other == Cardinality({i \in RowsOf(df_filtered) :
                                ~both_services(df_filtered.rows[i])})
    IN /\ both_metric + other = Len(df_filtered.rows)
       /\ Len(both_df.rows) + other = Len(df_filtered.rows)

\* C6 as stated: Most Voted and Lowest Voted are the first K rows of the
\* stable sort by votes, rows of equal votes in their original order.
C6_StableTopBottom ==
  status = "done" =>
    /\ most_voted = StableRanking(df_filtered, FALSE)
    /\ low_voted = StableRanking(df_filtered, TRUE)

\* t holds the first K rows of some sort of df by votes: as many rows as
\* min(len(df), K), the votes of the stable ranking position by position,
\* and each row a different row of df cut to name, rate and votes
IsRankingOf(t, df, asc) ==
  /\ t.columns = RankCols
  /\ Len(t.rows) = Smaller(Len(df.rows), K)
  /\ VotesSeq(t) = VotesSeq(StableRanking(df, asc))
  /\ \A i, j \in RowsOf(t) : i # j => t.rows[i].index # t.rows[j].index
  /\ \A i \in RowsOf(t) :
       \E j \in RowsOf(df) :
         /\ df.rows[j].index = t.rows[i].index
         /\ \A c \in RankCols : t.rows[i].cells[c] = df.rows[j].cells[c]

\* C6 amended: Most Voted and Lowest Voted are the first K = 10 rows of a
\* sort of the filtered table by votes (descending for top, ascending for
\* bottom); rows of equal votes come in no guaranteed order; a table of
\* fewer than K rows is returned whole.
C6_SortedTopBottom ==
  status = "done" =>
    /\ IsRankingOf(most_voted, df_filtered, FALSE)
    /\ IsRankingOf(low_voted, df_filtered, TRUE)

\* C6 witness: a table of more than K rows whose Most Voted is cut at a tie
\* and does not keep the original order of the tied rows
C6_Witness ==
  /\ status = "done"
  /\ Len(df_filtered.rows) > K
  /\ Len(most_voted.rows) = K
  /\ most_voted # StableRanking(df_filtered, FALSE)

\* C7 as stated: for a table of more than 10 rows the Most Voted and the
\* Lowest Voted rows are disjoint.
C7_DisjointAboveK ==
  (status = "done" /\ Len(df_filtered.rows) > K)
  => Labels(most_voted) \cap Labels(low_voted) = {}

\* C7 amended: Most Voted and Lowest Voted each hold min(n, 10) rows of the
\* n-row filtered table, so they share at least 2 * min(n, 10) - n rows:
\* every row when n <= 10 and at least 20 - n rows when 10 < n < 20.
C7_SharedRows ==
  status = "done" =>
    Cardinality(Labels(most_voted) \cap Labels(low_voted))
      >= 2 * Smaller(Len(df_filtered.rows), K) - Len(df_filtered.rows)

\* C7 witness: a table of 11 rows, 9 of them in both rankings
C7_Witness ==
  /\ status = "done"
  /\ Len(df_filtered.rows) = K + 1
  /\ Cardinality(Labels(most_voted) \cap Labels(low_voted)) = K - 1

\* C8: applying the filter steps, with the same widget values, to the table
\* they produced returns that table again, row for row.
C8_FilterIdempotent ==
  Filtered =>
    apply_filters(AtLine93(df_filtered), Widgets) = AtLine93(df_filtered)

\* C8 witness: under an active category filter and a slider the user moved
\* the filter steps removed a row and kept a row
C8_Witness ==
  /\ status = "done"
  /\ online_filter # All
  /\ rate_range # <<min_rate(data), max_rate(data)>>
  /\ Len(df_filtered.rows) > 0
  /\ Len(df_filtered.rows) < Len(data.rows)

\* C9: whatever the user did, the base table data is the table
\* load_and_clean made of the uploaded file (rows, order, columns, values),
\* and so is the stored result of load_and_clean.
C9_BaseTableUnchanged ==
  Loaded =>
    /\ data = load_and_clean(uploaded_file)
    /\ \A e \in cache : e.value = load_and_clean(e.key)

\* C9 witness: after a filter change the filtered table carries
\* cost_bucket and the base table does not
C9_Witness ==
  /\ status = "done"
  /\ table_filter # All
  /\ Len(df_filtered.rows) > 0
  /\ "cost_bucket" \in df_filtered.columns
  /\ "cost_bucket" \notin data.columns

\* the conjunction of the active predicates, written out on one row
Passes(r) ==
  /\ online_filter = All \/ r.cells["online_order"].s = online_filter
  /\ table_filter = All \/ r.cells["book_table"].s = table_filter
  /\ \/ rest_type_filter = All
     \/ (~r.cells["restaurant_type"].na
         /\ r.cells["restaurant_type"].s = rest_type_filter)
  /\ ~r.cells["rate"].na
  /\ rate_range[1].n * r.cells["rate"].d <= r.cells["rate"].n * rate_range[1].d
  /\ r.cells["rate"].n * rate_range[2].d <= rate_range[2].n * r.cells["rate"].d

\* C10: df_filtered is exactly the rows of data, in their order, that pass
\* every active predicate: equality with each selection other than 'All'
\* and rate_range[0] <= rate <= rate_range[1], bounds included; a row with
\* an absent rate does not pass.
C10_FilterIsConjunction ==
  Filtered => AtLine93(df_filtered).rows = SelectSeq(data.rows, Passes)

\* C10 witness: under an active category filter a row whose rate is the
\* upper bound was kept and a row with an absent rate, which the category
\* filter let through, was not
C10_Witness ==
  /\ status = "done"
  /\ online_filter # All
  /\ \E i \in RowsOf(df_filtered) :
       df_filtered.rows[i].cells["rate"] = rate_range[2]
  /\ \E i \in RowsOf(data) :
       /\ data.rows[i].cells["rate"].na
       /\ data.rows[i].cells["online_order"].s = online_filter
       /\ data.rows[i].index \notin Labels(df_filtered)

====
